---- MODULE Spec2Model ----
(***************************************************************************)
(* Model of webrtc::vcm::VideoSender (modules/video_coding/video_sender.cc) *)
(* One configuration thread (RegisterSendCodec, RegisterExternalEncoder,   *)
(* Bitrate, FrameRate)                                                     *)
(* and NumWorkers worker threads (AddVideoFrame, SetChannelParameters,     *)
(* IntraFrameRequest, Process, EnableFrameDropper) run against the two     *)
(* critical sections encoder_crit_ and params_crit_.                       *)
(***************************************************************************)
EXTENDS Integers, Sequences, FiniteSets, TLC

VARIABLES
  _encoder,                     \* VCMGenericEncoder* _encoder (and the object it points to)
  current_codec_,               \* VideoCodec current_codec_
  encoder_params_,              \* EncoderParameters encoder_params_
  encoder_has_internal_source_, \* bool encoder_has_internal_source_
  next_frame_types_,            \* std::vector<FrameType> next_frame_types_
  frame_dropper_enabled_,       \* bool frame_dropper_enabled_
  encoder_crit_,                \* owner of rtc::CriticalSection encoder_crit_
  params_crit_,                 \* owner of rtc::CriticalSection params_crit_
  db_external,                  \* _codecDataBase: the registered external encoder
  mo,                           \* _mediaOpt: frame dropper switch and encoding data
  timerDue,                     \* _sendStatsTimer.TimeUntilProcess() == 0
  send_stats_callback_,         \* whether a VCMSendStatisticsCallback was given
  th,                           \* per thread: operation, position, locals
  calls,                        \* number of public calls started so far
  written                       \* history: the parameter tuples SetChannelParameters calls computed

vars == <<_encoder, current_codec_, encoder_params_, encoder_has_internal_source_,
          next_frame_types_, frame_dropper_enabled_, encoder_crit_, params_crit_,
          db_external, mo, timerDue, send_stats_callback_, th, calls, written>>

\* the object state guarded by the two locks plus the collaborators
progVars == <<_encoder, current_codec_, encoder_params_, encoder_has_internal_source_,
              next_frame_types_, frame_dropper_enabled_, db_external, mo, timerDue,
              send_stats_callback_>>

----------------------------------------------------------------------------
\* Bounds of the model
NumWorkers == 2
MaxCalls == 4
MaxStreams == 2

\* Status codes used by video_sender.cc
VCM_OK == 0
VCM_PARAMETER_ERROR == -4
VCM_CODEC_ERROR == -6
VCM_UNINITIALIZED == -7
kOutOfRange == -1
WEBRTC_VIDEO_CODEC_OK == 0
WEBRTC_VIDEO_CODEC_ERROR == -1

kVideoFrameKey == "Key"
kVideoFrameDelta == "Delta"
FrameTypes == {kVideoFrameKey, kVideoFrameDelta}

Cfg == 0
Workers == 1..NumWorkers
Threads == {Cfg} \cup Workers
NoThread == -1

ZeroParams == [target_bitrate |-> 0, loss_rate |-> 0, rtt |-> 0, input_frame_rate |-> 0]

NoEncoder == [present |-> FALSE, internal |-> FALSE, external |-> FALSE,
              params |-> ZeroParams, encoded |-> FALSE]

DefaultCodec == [numberOfSimulcastStreams |-> 0, maxFramerate |-> 0, plType |-> "none",
                 codecType |-> "none", numberOfTemporalLayers |-> 0, mode |-> "none"]

NoEncodingData == [maxFramerate |-> 0, numLayers |-> 0]

\* Arguments the model feeds to the public operations
Codec(s, f, p, c, n, m) ==
  [numberOfSimulcastStreams |-> s, maxFramerate |-> f, plType |-> p,
   codecType |-> c, numberOfTemporalLayers |-> n, mode |-> m]

\* codecs that differ in their simulcast stream count and payload type
StreamCodecs ==
  { Codec(s, 1, p, "VP8", 1, "kRealtimeVideo") : s \in 0..MaxStreams, p \in {"ext", "builtin"} }

\* single-stream codecs that differ in payload type and maximum frame rate
RateCodecs ==
  { Codec(1, f, p, "VP8", 1, "kRealtimeVideo") : f \in {0, 2}, p \in {"ext", "builtin"} }

\* a few codecs for the runs that exercise every operation
FewCodecs ==
  { Codec(s, 1, p, "VP8", 1, "kRealtimeVideo") : s \in {2}, p \in {"ext", "builtin"} }

StreamIndexes == 0..MaxStreams
\* channel feedback <<target_bitrate, lossRate, rtt>> and frame-rate estimates
Feedback == { <<0, 0, 0>>, <<1, 1, 1>> }
FewFeedback == { <<0, 0, 0>>, <<1, 0, 0>> }
FrameRates == {0, 1}
EncodeResults == {WEBRTC_VIDEO_CODEC_OK, WEBRTC_VIDEO_CODEC_ERROR}

IdleLocals == [op |-> "none", pc |-> "idle", ret |-> VCM_OK, params |-> ZeroParams,
               types |-> <<>>, internal |-> FALSE, idx |-> 0, codec |-> DefaultCodec,
               trace |-> <<>>, reqd |-> {}]

----------------------------------------------------------------------------
\* Helpers

VCM_MAX(a, b) == IF a > b THEN a ELSE b

AllOf(n, v) == [i \in 1..n |-> v]

AtRest(t) == th[t].pc \in {"idle", "done"}

\* a thread can start a public call; the workers are interchangeable, so a new
\* call is given to the lowest-numbered worker that is not inside a call
CanStart(t) ==
  /\ AtRest(t)
  /\ calls < MaxCalls
  /\ t \in Workers => \A u \in Workers : u < t => ~AtRest(u)

\* a critical section that never blocks
FreeAlways(l) == TRUE

\* rtc::CritScope can enter the critical section
Free(l) == l = NoThread

\* a public call returns: its locals are kept for inspection until the next call
Return(op, ret, trace) ==
  [IdleLocals EXCEPT !.op = op, !.pc = "done", !.ret = ret, !.trace = trace]

\* AddVideoFrame returns: the snapshot and the requests noted stay inspectable
ReturnAVF(locals, ret, trace) ==
  [Return("AddVideoFrame", ret, trace) EXCEPT !.types = locals.types, !.reqd = locals.reqd]

InFlightAVF(t) == th[t].op = "AddVideoFrame" /\ th[t].pc \in {"avf_lock", "avf_encode", "avf_cleanup"}

\* an IntraFrameRequest(i) that returned VCM_OK is noted by every AddVideoFrame
\* that is between its snapshot and its cleanup
NoteRequest(locals, u, i) ==
  [t \in Threads |->
     IF t = u THEN locals[t]
     ELSE IF InFlightAVF(t) THEN [locals[t] EXCEPT !.reqd = @ \cup {i}]
     ELSE locals[t]]

----------------------------------------------------------------------------
\* VideoSender::VideoSender
Init ==
  /\ _encoder = NoEncoder
  /\ current_codec_ = DefaultCodec
  /\ encoder_params_ = ZeroParams
  /\ encoder_has_internal_source_ = FALSE
  /\ next_frame_types_ = AllOf(1, kVideoFrameDelta)
  /\ frame_dropper_enabled_ = FALSE
  /\ encoder_crit_ = NoThread
  /\ params_crit_ = NoThread
  /\ db_external = [registered |-> FALSE, internal |-> FALSE]
  /\ mo = [dropper |-> TRUE, encodingData |-> NoEncodingData]
  /\ timerDue = FALSE
  /\ send_stats_callback_ \in BOOLEAN
  /\ th = [t \in Threads |-> IdleLocals]
  /\ calls = 0
  /\ written = {ZeroParams}

----------------------------------------------------------------------------
\* the push without the default for a missing frame-rate estimate
SetEncoderParametersNoDefault(enc, params, has_internal_source, codec) ==
  IF ~has_internal_source /\ params.target_bitrate = 0 THEN enc
  ELSE IF ~enc.present THEN enc
  ELSE [enc EXCEPT !.params = params]

\* VideoSender::SetEncoderParameters: the encoder object after the call
SetEncoderParameters(enc, params, has_internal_source, codec) ==
  IF ~has_internal_source /\ params.target_bitrate = 0 THEN enc
  ELSE IF ~enc.present THEN enc
  ELSE [enc EXCEPT !.params =
          IF params.input_frame_rate = 0
            THEN [params EXCEPT !.input_frame_rate = codec.maxFramerate]
            ELSE params]

\* whether SetEncoderParameters reaches _encoder->SetEncoderParameters
PushesParameters(enc, params, has_internal_source) ==
  ~(~has_internal_source /\ params.target_bitrate = 0) /\ enc.present

----------------------------------------------------------------------------
\* VideoSender::AddVideoFrame

\* the snapshot taken in a scope that keeps params_crit_ until the call returns
AVF_SnapshotHoldingLock(t) ==
  /\ t \in Workers
  /\ CanStart(t)
  /\ Free(params_crit_)
  /\ th' = [th EXCEPT ![t] = [IdleLocals EXCEPT !.op = "AddVideoFrame", !.pc = "avf_lock",
                                 !.params = encoder_params_,
                                 !.types = next_frame_types_,
                                 !.internal = encoder_has_internal_source_]]
  /\ calls' = calls + 1
  /\ params_crit_' = t
  /\ UNCHANGED <<progVars, written, encoder_crit_>>

\* lines 256-264: snapshot under params_crit_, released before encoder_crit_
AVF_Snapshot(t) ==
  /\ t \in Workers
  /\ CanStart(t)
  /\ Free(params_crit_)
  /\ th' = [th EXCEPT ![t] = [IdleLocals EXCEPT !.op = "AddVideoFrame", !.pc = "avf_lock",
                                 !.params = encoder_params_,
                                 !.types = next_frame_types_,
                                 !.internal = encoder_has_internal_source_]]
  /\ calls' = calls + 1
  /\ UNCHANGED <<progVars, written, encoder_crit_, params_crit_>>

\* the null check left out
EncoderIsNullNever(enc) == FALSE

\* line 266: the null check of the handle
EncoderIsNull(enc) == ~enc.present

\* the dropped frame is not reported to the encoder
OnDroppedFrameForgotten(trace) == trace

\* line 275: _encoder->OnDroppedFrame() on the drop path
OnDroppedFrame(trace) == trace \o <<"OnDroppedFrame">>

\* lines 265-303: take encoder_crit_, null check, parameter push, drop decision,
\* resolution check, native-handle conversion, start of Encode
AVF_Enter(t, drop, matches, native_handle, supportsNativeHandle, converted) ==
  /\ th[t].pc = "avf_lock"
  /\ Free(encoder_crit_)
  /\ IF EncoderIsNull(_encoder)
       THEN /\ th' = [th EXCEPT ![t] = ReturnAVF(th[t], VCM_UNINITIALIZED, <<>>)]
            /\ UNCHANGED <<progVars, written, encoder_crit_, params_crit_, calls>>
       ELSE LET pushed == SetEncoderParameters(_encoder, th[t].params, th[t].internal, current_codec_)
                tr0 == IF PushesParameters(_encoder, th[t].params, th[t].internal)
                         THEN <<"SetEncoderParameters", "DropFrame">> ELSE <<"DropFrame">>
                \* line 286-287: SupportsNativeHandle is asked for a native buffer only
                tr1 == tr0 \o <<"MatchesCurrentResolution">>
                          \o (IF native_handle THEN <<"SupportsNativeHandle">> ELSE <<>>)
            IN IF drop
                 THEN /\ _encoder' = pushed
                      /\ th' = [th EXCEPT ![t] = ReturnAVF(th[t], VCM_OK, OnDroppedFrame(tr0))]
                      /\ UNCHANGED encoder_crit_
               ELSE IF ~matches
                 THEN /\ _encoder' = pushed
                      /\ th' = [th EXCEPT ![t] = ReturnAVF(th[t], VCM_PARAMETER_ERROR,
                                                        tr0 \o <<"MatchesCurrentResolution">>)]
                      /\ UNCHANGED encoder_crit_
               ELSE IF native_handle /\ ~supportsNativeHandle /\ ~converted
                 THEN /\ _encoder' = pushed
                      /\ th' = [th EXCEPT ![t] = ReturnAVF(th[t], VCM_PARAMETER_ERROR, tr1)]
                      /\ UNCHANGED encoder_crit_
               ELSE /\ _encoder' = [pushed EXCEPT !.encoded = TRUE]
                    /\ th' = [th EXCEPT ![t].pc = "avf_encode",
                                        ![t].trace = tr1 \o <<"Encode">>]
                    /\ encoder_crit_' = t
  /\ IF EncoderIsNull(_encoder) THEN TRUE
     ELSE UNCHANGED <<current_codec_, encoder_params_, encoder_has_internal_source_,
                      next_frame_types_, frame_dropper_enabled_, db_external, mo, timerDue, send_stats_callback_, written,
                      params_crit_, calls>>

\* a failed Encode taken for a success
EncodeFailedNever(ret) == FALSE

\* line 304: the test of the result of Encode
EncodeFailed(ret) == ret < 0

\* lines 302-307: Encode returns
AVF_EncodeReturn(t, ret) ==
  /\ th[t].pc = "avf_encode"
  /\ IF EncodeFailed(ret)
       THEN /\ th' = [th EXCEPT ![t] = ReturnAVF(th[t], ret, @.trace)]
            /\ encoder_crit_' = NoThread
            /\ _encoder' = _encoder
       ELSE /\ th' = [th EXCEPT ![t].pc = "avf_cleanup", ![t].ret = ret]
            /\ UNCHANGED <<_encoder, encoder_crit_>>
  /\ UNCHANGED <<current_codec_, encoder_params_, encoder_has_internal_source_,
                 next_frame_types_, frame_dropper_enabled_, db_external, mo, timerDue, send_stats_callback_, written,
                 params_crit_, calls>>

\* the cleanup as a blind overwrite
DowngradeFrameTypesBlind(current, snapshot, garbage) ==
  [i \in 1..Len(current) |-> kVideoFrameDelta]

\* the cleanup with the comparison inverted
DowngradeFrameTypesInverted(current, snapshot, garbage) ==
  [i \in 1..Len(current) |->
     LET requested == IF i <= Len(snapshot) THEN snapshot[i] ELSE garbage[i]
     IN IF requested # current[i] THEN kVideoFrameDelta ELSE current[i]]

\* lines 312-317: the loop runs over the current vector; reading the snapshot
\* past its end is undefined, the value read there is arbitrary (garbage)
DowngradeFrameTypes(current, snapshot, garbage) ==
  [i \in 1..Len(current) |->
     LET requested == IF i <= Len(snapshot) THEN snapshot[i] ELSE garbage[i]
     IN IF requested = current[i] THEN kVideoFrameDelta ELSE current[i]]

\* lines 309-319: post-encode cleanup under params_crit_ (encoder_crit_ still held)
AVF_Cleanup(t, garbage) ==
  /\ th[t].pc = "avf_cleanup"
  /\ Free(params_crit_)
  /\ next_frame_types_' = DowngradeFrameTypes(next_frame_types_, th[t].types, garbage)
  /\ th' = [th EXCEPT ![t] = ReturnAVF(th[t], VCM_OK, @.trace)]
  /\ encoder_crit_' = NoThread
  /\ UNCHANGED <<_encoder, current_codec_, encoder_params_, encoder_has_internal_source_,
                 frame_dropper_enabled_, db_external, mo, timerDue, send_stats_callback_, written, params_crit_, calls>>

----------------------------------------------------------------------------
\* VideoSender::IntraFrameRequest

\* the bounds check off by one
OutOfRangeOffByOne(stream_index, types) == stream_index > Len(types)

\* lines 325 and 339: the bounds check
OutOfRange(stream_index, types) == stream_index >= Len(types)

\* a request that marks every stream
MarkKeyAll(types, stream_index) == [k \in 1..Len(types) |-> kVideoFrameKey]

\* line 328: next_frame_types_[stream_index] = kVideoFrameKey (0-based index)
MarkKey(types, stream_index) == [types EXCEPT ![stream_index + 1] = kVideoFrameKey]

\* lines 323-331: first bounds check and mark under params_crit_
IFR_Mark(t, stream_index) ==
  /\ t \in Workers
  /\ CanStart(t)
  /\ Free(params_crit_)
  /\ calls' = calls + 1
  /\ IF OutOfRange(stream_index, next_frame_types_)
       THEN /\ th' = [th EXCEPT ![t] = [Return("IntraFrameRequest", kOutOfRange, <<>>)
                                          EXCEPT !.idx = stream_index]]
            /\ UNCHANGED next_frame_types_
       ELSE /\ next_frame_types_' = MarkKey(next_frame_types_, stream_index)
            /\ IF ~encoder_has_internal_source_
                 THEN th' = NoteRequest([th EXCEPT ![t] =
                                 [Return("IntraFrameRequest", VCM_OK, <<>>)
                                    EXCEPT !.idx = stream_index]], t, stream_index)
                 ELSE th' = [th EXCEPT ![t] = [IdleLocals EXCEPT !.op = "IntraFrameRequest",
                                                 !.pc = "ifr_lock", !.idx = stream_index,
                                                 !.internal = TRUE]]
  /\ UNCHANGED <<_encoder, current_codec_, encoder_params_, encoder_has_internal_source_,
                 frame_dropper_enabled_, db_external, mo, timerDue, send_stats_callback_, written, encoder_crit_, params_crit_>>

\* line 337: take encoder_crit_
IFR_Enter(t) ==
  /\ th[t].pc = "ifr_lock"
  /\ Free(encoder_crit_)
  /\ encoder_crit_' = t
  /\ th' = [th EXCEPT ![t].pc = "ifr_params"]
  /\ UNCHANGED <<progVars, written, params_crit_, calls>>

\* lines 338-344: take params_crit_, second bounds check, call RequestFrame
IFR_Recheck(t) ==
  /\ th[t].pc = "ifr_params"
  /\ Free(params_crit_)
  /\ IF OutOfRange(th[t].idx, next_frame_types_)
       THEN /\ th' = [th EXCEPT ![t] = [Return("IntraFrameRequest", kOutOfRange, <<>>)
                                          EXCEPT !.idx = th[t].idx, !.internal = TRUE]]
            /\ encoder_crit_' = NoThread
            /\ UNCHANGED params_crit_
     ELSE IF _encoder.present /\ _encoder.internal
       THEN /\ th' = [th EXCEPT ![t].pc = "ifr_request",
                                ![t].types = next_frame_types_,
                                ![t].trace = <<"InternalSource", "RequestFrame">>]
            /\ params_crit_' = t
            /\ UNCHANGED encoder_crit_
     ELSE /\ th' = NoteRequest([th EXCEPT ![t] =
                       [Return("IntraFrameRequest", VCM_OK,
                               IF _encoder.present THEN <<"InternalSource">> ELSE <<>>)
                          EXCEPT !.idx = th[t].idx, !.internal = TRUE]], t, th[t].idx)
          /\ encoder_crit_' = NoThread
          /\ UNCHANGED params_crit_
  /\ UNCHANGED <<progVars, written, calls>>

\* the request cleared whatever RequestFrame returned
ClearServicedRequestAlways(types, stream_index, ret) ==
  [types EXCEPT ![stream_index + 1] = kVideoFrameDelta]

\* lines 344-347: the request is cleared if RequestFrame serviced it
ClearServicedRequest(types, stream_index, ret) ==
  IF ret = WEBRTC_VIDEO_CODEC_OK
    THEN [types EXCEPT ![stream_index + 1] = kVideoFrameDelta]
    ELSE types

\* lines 344-349: RequestFrame returns; clear the request if it was serviced
IFR_RequestReturn(t, ret) ==
  /\ th[t].pc = "ifr_request"
  /\ next_frame_types_' = ClearServicedRequest(next_frame_types_, th[t].idx, ret)
  /\ th' = NoteRequest([th EXCEPT ![t] =
                 [Return("IntraFrameRequest", VCM_OK, @.trace)
                    EXCEPT !.idx = th[t].idx, !.types = th[t].types, !.internal = TRUE]],
                 t, th[t].idx)
  /\ encoder_crit_' = NoThread
  /\ params_crit_' = NoThread
  /\ UNCHANGED <<_encoder, current_codec_, encoder_params_, encoder_has_internal_source_,
                 frame_dropper_enabled_, db_external, mo, timerDue, send_stats_callback_, written, calls>>

----------------------------------------------------------------------------
\* The codec registry (_codecDataBase)

\* SetSendCodec followed by GetEncoder: a successful call builds a fresh encoder
\* for the codec's payload type, a failed one leaves the registry without encoder
GetEncoderAfterSetSendCodec(codec, ok) ==
  IF ~ok THEN NoEncoder
  ELSE LET ext == db_external.registered /\ codec.plType = "ext"
       IN [present |-> TRUE, internal |-> ext /\ db_external.internal, external |-> ext,
           params |-> ZeroParams, encoded |-> FALSE]

----------------------------------------------------------------------------
\* VideoSender::RegisterSendCodec

\* lines 104-111
NumLayers(codec) ==
  IF codec.codecType \in {"VP8", "VP9"} THEN codec.numberOfTemporalLayers ELSE 1

\* lines 114-120: the frame dropper switch of _mediaOpt after the registration
DropperAfterRegister(codec, enabled, dropper) ==
  IF NumLayers(codec) > 1 /\ codec.mode = "kScreensharing" THEN FALSE
  ELSE IF enabled THEN TRUE
  ELSE dropper

\* a null codec rejected only after the handle was refreshed
RSC_NullDropsEncoder ==
  /\ CanStart(Cfg)
  /\ Free(encoder_crit_)
  /\ th' = [th EXCEPT ![Cfg] = Return("RegisterSendCodec", VCM_PARAMETER_ERROR, <<"GetEncoder">>)]
  /\ calls' = calls + 1
  /\ _encoder' = NoEncoder
  /\ UNCHANGED <<current_codec_, encoder_params_, encoder_has_internal_source_,
                 next_frame_types_, frame_dropper_enabled_, db_external, mo, timerDue,
                 send_stats_callback_, written, encoder_crit_, params_crit_>>

\* lines 80-83: a null codec
RSC_Null ==
  /\ CanStart(Cfg)
  /\ Free(encoder_crit_)
  /\ th' = [th EXCEPT ![Cfg] = Return("RegisterSendCodec", VCM_PARAMETER_ERROR, <<>>)]
  /\ calls' = calls + 1
  /\ UNCHANGED <<progVars, written, encoder_crit_, params_crit_>>

\* lines 80-120: registry call, handle and codec refresh, frame dropper policy
RSC_Begin(codec, ok) ==
  /\ CanStart(Cfg)
  /\ Free(encoder_crit_)
  /\ calls' = calls + 1
  /\ _encoder' = GetEncoderAfterSetSendCodec(codec, ok)
  /\ current_codec_' = codec
  /\ IF ~ok
       THEN /\ th' = [th EXCEPT ![Cfg] = [Return("RegisterSendCodec", VCM_CODEC_ERROR,
                                                 <<"SetSendCodec", "GetEncoder">>)
                                            EXCEPT !.codec = codec]]
            /\ UNCHANGED <<mo, encoder_crit_>>
       ELSE /\ th' = [th EXCEPT ![Cfg] = [IdleLocals EXCEPT !.op = "RegisterSendCodec",
                                            !.pc = "rsc_params", !.codec = codec,
                                            !.trace = <<"SetSendCodec", "GetEncoder">>]]
            /\ mo' = [mo EXCEPT !.dropper = DropperAfterRegister(codec, frame_dropper_enabled_, @)]
            /\ encoder_crit_' = Cfg
  /\ UNCHANGED <<encoder_params_, encoder_has_internal_source_, next_frame_types_,
                 frame_dropper_enabled_, db_external, timerDue, send_stats_callback_, written, params_crit_>>

\* the resize without the VCM_MAX
ResetFrameTypesNoMax(codec) ==
  AllOf(codec.numberOfSimulcastStreams, kVideoFrameKey)

\* lines 124-125
ResetFrameTypes(codec) ==
  AllOf(VCM_MAX(codec.numberOfSimulcastStreams, 1), kVideoFrameKey)

\* lines 121-129: frame types and internal-source flag under params_crit_
RSC_Params ==
  /\ th[Cfg].pc = "rsc_params"
  /\ Free(params_crit_)
  /\ next_frame_types_' = ResetFrameTypes(th[Cfg].codec)
  /\ encoder_has_internal_source_' = _encoder.internal
  /\ th' = [th EXCEPT ![Cfg].pc = "rsc_encdata", ![Cfg].trace = @ \o <<"InternalSource">>]
  /\ UNCHANGED <<_encoder, current_codec_, encoder_params_, frame_dropper_enabled_,
                 db_external, mo, timerDue, send_stats_callback_, written, encoder_crit_, params_crit_, calls>>

\* lines 131-139: SetEncodingData, return
RSC_Finish ==
  /\ th[Cfg].pc = "rsc_encdata"
  /\ mo' = [mo EXCEPT !.encodingData = [maxFramerate |-> th[Cfg].codec.maxFramerate,
                                        numLayers |-> NumLayers(th[Cfg].codec)]]
  /\ th' = [th EXCEPT ![Cfg] = [Return("RegisterSendCodec", VCM_OK,
                                       @.trace \o <<"SetEncodingData">>)
                                  EXCEPT !.codec = th[Cfg].codec]]
  /\ encoder_crit_' = NoThread
  /\ UNCHANGED <<_encoder, current_codec_, encoder_params_, encoder_has_internal_source_,
                 next_frame_types_, frame_dropper_enabled_, db_external, timerDue, send_stats_callback_, written,
                 params_crit_, calls>>

----------------------------------------------------------------------------
\* VideoSender::RegisterExternalEncoder

\* lines 163-164: a non-null encoder is handed to the registry
REE_Register(internalSource) ==
  /\ CanStart(Cfg)
  /\ Free(encoder_crit_)
  /\ calls' = calls + 1
  /\ db_external' = [registered |-> TRUE, internal |-> internalSource]
  /\ th' = [th EXCEPT ![Cfg] = Return("RegisterExternalEncoder", VCM_OK,
                                      <<"RegisterExternalEncoder">>)]
  /\ UNCHANGED <<_encoder, current_codec_, encoder_params_, encoder_has_internal_source_,
                 next_frame_types_, frame_dropper_enabled_, mo, timerDue, send_stats_callback_, written,
                 encoder_crit_, params_crit_>>

\* lines 151-155: a null encoder deregisters; RTC_CHECK aborts unless the
\* registry knew the payload type
REE_Deregister ==
  /\ CanStart(Cfg)
  /\ Free(encoder_crit_)
  /\ db_external.registered
  /\ calls' = calls + 1
  /\ db_external' = [registered |-> FALSE, internal |-> FALSE]
  /\ IF _encoder.present /\ _encoder.external
       THEN /\ th' = [th EXCEPT ![Cfg] = [IdleLocals EXCEPT !.op = "RegisterExternalEncoder",
                                            !.pc = "ree_params",
                                            !.trace = <<"DeregisterExternalEncoder">>]]
            /\ encoder_crit_' = Cfg
       ELSE /\ th' = [th EXCEPT ![Cfg] = Return("RegisterExternalEncoder", VCM_OK,
                                                <<"DeregisterExternalEncoder">>)]
            /\ UNCHANGED encoder_crit_
  /\ UNCHANGED <<_encoder, current_codec_, encoder_params_, encoder_has_internal_source_,
                 next_frame_types_, frame_dropper_enabled_, mo, timerDue, send_stats_callback_, written, params_crit_>>

\* the handle cleared, the internal-source flag forgotten
REE_ClearHandleOnly ==
  /\ th[Cfg].pc = "ree_params"
  /\ Free(params_crit_)
  /\ _encoder' = NoEncoder
  /\ th' = [th EXCEPT ![Cfg] = Return("RegisterExternalEncoder", VCM_OK, @.trace)]
  /\ encoder_crit_' = NoThread
  /\ UNCHANGED <<current_codec_, encoder_params_, encoder_has_internal_source_,
                 next_frame_types_, frame_dropper_enabled_, db_external, mo, timerDue,
                 send_stats_callback_, written, params_crit_, calls>>

\* lines 155-161: the deregistered encoder was the send codec
REE_Clear ==
  /\ th[Cfg].pc = "ree_params"
  /\ Free(params_crit_)
  /\ _encoder' = NoEncoder
  /\ encoder_has_internal_source_' = FALSE
  /\ th' = [th EXCEPT ![Cfg] = Return("RegisterExternalEncoder", VCM_OK, @.trace)]
  /\ encoder_crit_' = NoThread
  /\ UNCHANGED <<current_codec_, encoder_params_, next_frame_types_, frame_dropper_enabled_,
                 db_external, mo, timerDue, send_stats_callback_, written, params_crit_, calls>>

----------------------------------------------------------------------------
\* VideoSender::SetChannelParameters

\* a store that updates the target bitrate only
StoreParametersTorn(old, new) == [old EXCEPT !.target_bitrate = new.target_bitrate]

\* line 205: the store of the whole structure
StoreParameters(old, new) == new

\* lines 195-207: rate-control calls, then store and flag read under params_crit_
SCP_Store(t, target_bitrate, lossRate, rtt, target_rate, input_frame_rate) ==
  /\ t \in Workers
  /\ CanStart(t)
  /\ Free(params_crit_)
  /\ calls' = calls + 1
  /\ LET encoder_params == [target_bitrate |-> target_rate, loss_rate |-> lossRate,
                            rtt |-> rtt, input_frame_rate |-> input_frame_rate]
     IN /\ encoder_params_' = StoreParameters(encoder_params_, encoder_params)
        /\ written' = written \cup {encoder_params}
        /\ IF encoder_has_internal_source_
             THEN th' = [th EXCEPT ![t] = [IdleLocals EXCEPT !.op = "SetChannelParameters",
                                             !.pc = "scp_lock", !.params = encoder_params,
                                             !.internal = TRUE,
                                             !.trace = <<"SetTargetRates", "InputFrameRate">>]]
             ELSE th' = [th EXCEPT ![t] = [Return("SetChannelParameters", VCM_OK,
                                                  <<"SetTargetRates", "InputFrameRate">>)
                                             EXCEPT !.params = encoder_params]]
  /\ UNCHANGED <<_encoder, current_codec_, encoder_has_internal_source_, next_frame_types_,
                 frame_dropper_enabled_, db_external, mo, timerDue, send_stats_callback_, encoder_crit_, params_crit_>>

\* lines 212-219: push to an internal-source encoder under encoder_crit_
SCP_Push(t) ==
  /\ th[t].pc = "scp_lock"
  /\ Free(encoder_crit_)
  /\ _encoder' = SetEncoderParameters(_encoder, th[t].params, th[t].internal, current_codec_)
  /\ th' = [th EXCEPT ![t] = [Return("SetChannelParameters", VCM_OK,
                                IF PushesParameters(_encoder, th[t].params, th[t].internal)
                                  THEN @.trace \o <<"SetEncoderParameters">> ELSE @.trace)
                                EXCEPT !.params = th[t].params, !.internal = th[t].internal]]
  /\ UNCHANGED <<current_codec_, encoder_params_, encoder_has_internal_source_,
                 next_frame_types_, frame_dropper_enabled_, db_external, mo, timerDue, send_stats_callback_, written,
                 encoder_crit_, params_crit_, calls>>

----------------------------------------------------------------------------
\* VideoSender::Process

\* the interval consumed inside the test for the sink
ProcessedOnlyWithSink(due, sink) == due /\ sink

\* lines 52-55: whether _sendStatsTimer.Processed() is called
Processed(due, sink) == due

\* line 52: the test of the timer; no lock is held, the timer is tested now and
\* marked later, so another caller of Process can test it in between
Process_Test(t) ==
  /\ t \in Workers
  /\ CanStart(t)
  /\ calls' = calls + 1
  /\ th' = [th EXCEPT ![t] = [IdleLocals EXCEPT !.op = "Process",
                                !.pc = IF timerDue THEN "proc_timer" ELSE "proc_params",
                                !.internal = timerDue]]
  /\ UNCHANGED <<progVars, written, encoder_crit_, params_crit_>>

\* lines 53-60: the interval is marked as consumed, the statistics are reported
Process_Timer(t) ==
  /\ th[t].pc = "proc_timer"
  /\ timerDue' = IF Processed(th[t].internal, send_stats_callback_) THEN FALSE ELSE timerDue
  /\ th' = [th EXCEPT ![t].pc = "proc_params",
                      ![t].trace = (IF Processed(th[t].internal, send_stats_callback_)
                                      THEN <<"Processed">> ELSE <<>>)
                                   \o (IF send_stats_callback_
                                         THEN <<"SendStatistics">> ELSE <<>>)]
  /\ UNCHANGED <<_encoder, current_codec_, encoder_params_, encoder_has_internal_source_,
                 next_frame_types_, frame_dropper_enabled_, db_external, mo,
                 send_stats_callback_, written, encoder_crit_, params_crit_, calls>>

\* a refresh that stores a whole new structure
RefreshInputFrameRateWhole(params, input_frame_rate) ==
  [ZeroParams EXCEPT !.input_frame_rate = input_frame_rate]

\* line 67: encoder_params_.input_frame_rate = _mediaOpt.InputFrameRate()
RefreshInputFrameRate(params, input_frame_rate) ==
  [params EXCEPT !.input_frame_rate = input_frame_rate]

\* lines 63-68: refresh of the input frame rate under params_crit_
Process_Store(t, input_frame_rate) ==
  /\ th[t].pc = "proc_params"
  /\ Free(params_crit_)
  /\ encoder_params_' = RefreshInputFrameRate(encoder_params_, input_frame_rate)
  /\ th' = [th EXCEPT ![t] = [Return("Process", VCM_OK, @.trace \o <<"InputFrameRate">>)
                                EXCEPT !.internal = th[t].internal]]
  /\ UNCHANGED <<_encoder, current_codec_, encoder_has_internal_source_, next_frame_types_,
                 frame_dropper_enabled_, db_external, mo, timerDue, send_stats_callback_, written,
                 encoder_crit_, params_crit_, calls>>

\* the clock reaches the end of the statistics interval
ClockAdvance ==
  /\ ~timerDue
  /\ timerDue' = TRUE
  /\ UNCHANGED <<_encoder, current_codec_, encoder_params_, encoder_has_internal_source_,
                 next_frame_types_, frame_dropper_enabled_, db_external, mo,
                 send_stats_callback_, written, encoder_crit_, params_crit_, th, calls>>

----------------------------------------------------------------------------
\* VideoSender::Bitrate and VideoSender::FrameRate: called on the configuration
\* thread, they take no lock

\* a query that has passed its null test; dereferencing a null handle is
\* undefined, the model records it as a crash of the call
Dereference(op, enc, value) ==
  IF enc.present
    THEN [Return(op, VCM_OK, <<"GetEncoderParameters">>) EXCEPT !.params = value]
    ELSE [IdleLocals EXCEPT !.op = op, !.pc = "crashed"]

\* the query without its null test
Bitrate_CheckSkipped ==
  /\ CanStart(Cfg)
  /\ calls' = calls + 1
  /\ th' = [th EXCEPT ![Cfg] = [IdleLocals EXCEPT !.op = "Bitrate", !.pc = "br_read"]]
  /\ UNCHANGED <<progVars, written, encoder_crit_, params_crit_>>

\* lines 168-174: the null test of the handle, no lock taken
Bitrate_Check ==
  /\ CanStart(Cfg)
  /\ calls' = calls + 1
  /\ th' = [th EXCEPT ![Cfg] =
              IF EncoderIsNull(_encoder)
                THEN Return("Bitrate", VCM_UNINITIALIZED, <<>>)
                ELSE [IdleLocals EXCEPT !.op = "Bitrate", !.pc = "br_read"]]
  /\ UNCHANGED <<progVars, written, encoder_crit_, params_crit_>>

\* lines 175-176: *bitrate = _encoder->GetEncoderParameters().target_bitrate
Bitrate_Read ==
  /\ th[Cfg].pc = "br_read"
  /\ th' = [th EXCEPT ![Cfg] =
              Dereference("Bitrate", _encoder,
                          [ZeroParams EXCEPT !.target_bitrate = _encoder.params.target_bitrate])]
  /\ UNCHANGED <<progVars, written, encoder_crit_, params_crit_, calls>>

\* lines 180-186: the null test of the handle, no lock taken
FrameRate_Check ==
  /\ CanStart(Cfg)
  /\ calls' = calls + 1
  /\ th' = [th EXCEPT ![Cfg] =
              IF EncoderIsNull(_encoder)
                THEN Return("FrameRate", VCM_UNINITIALIZED, <<>>)
                ELSE [IdleLocals EXCEPT !.op = "FrameRate", !.pc = "fr_read"]]
  /\ UNCHANGED <<progVars, written, encoder_crit_, params_crit_>>

\* lines 188-189: *framerate = _encoder->GetEncoderParameters().input_frame_rate
FrameRate_Read ==
  /\ th[Cfg].pc = "fr_read"
  /\ th' = [th EXCEPT ![Cfg] =
              Dereference("FrameRate", _encoder,
                          [ZeroParams EXCEPT !.input_frame_rate = _encoder.params.input_frame_rate])]
  /\ UNCHANGED <<progVars, written, encoder_crit_, params_crit_, calls>>

----------------------------------------------------------------------------
\* VideoSender::EnableFrameDropper, lines 352-357
EnableFrameDropper(t, enable) ==
  /\ t \in Workers
  /\ CanStart(t)
  /\ Free(encoder_crit_)
  /\ calls' = calls + 1
  /\ frame_dropper_enabled_' = enable
  /\ mo' = [mo EXCEPT !.dropper = enable]
  /\ th' = [th EXCEPT ![t] = Return("EnableFrameDropper", VCM_OK, <<"EnableFrameDropper">>)]
  /\ UNCHANGED <<_encoder, current_codec_, encoder_params_, encoder_has_internal_source_,
                 next_frame_types_, db_external, timerDue, send_stats_callback_, written, encoder_crit_, params_crit_>>

----------------------------------------------------------------------------
\* The next-state relations, one group of steps per public operation

Garbage == [1..MaxStreams -> FrameTypes]

\* the frames and collaborator answers AVF_Enter tells apart, as <<DropFrame(),
\* MatchesCurrentResolution(), native_handle(), SupportsNativeHandle(),
\* NativeToI420Buffer() succeeded>>; an answer that is not asked for is FALSE
FrameCases ==
  { <<TRUE, FALSE, FALSE, FALSE, FALSE>>,
    <<FALSE, FALSE, FALSE, FALSE, FALSE>>,
    <<FALSE, TRUE, FALSE, FALSE, FALSE>>,
    <<FALSE, TRUE, TRUE, TRUE, FALSE>>,
    <<FALSE, TRUE, TRUE, FALSE, TRUE>>,
    <<FALSE, TRUE, TRUE, FALSE, FALSE>> }

AddVideoFrameNext ==
  \/ \E t \in Workers : AVF_Snapshot(t)
  \/ \E t \in Workers, f \in FrameCases : AVF_Enter(t, f[1], f[2], f[3], f[4], f[5])
  \/ \E t \in Workers, ret \in EncodeResults : AVF_EncodeReturn(t, ret)
  \/ \E t \in Workers, garbage \in Garbage : AVF_Cleanup(t, garbage)

IntraFrameRequestNext ==
  \/ \E t \in Workers, i \in StreamIndexes : IFR_Mark(t, i)
  \/ \E t \in Workers : IFR_Enter(t)
  \/ \E t \in Workers : IFR_Recheck(t)
  \/ \E t \in Workers, ret \in EncodeResults : IFR_RequestReturn(t, ret)

RegisterSendCodecNext(codecs) ==
  \/ RSC_Null
  \/ \E codec \in codecs, ok \in BOOLEAN : RSC_Begin(codec, ok)
  \/ RSC_Params
  \/ RSC_Finish

RegisterExternalEncoderNext ==
  \/ \E internalSource \in BOOLEAN : REE_Register(internalSource)
  \/ REE_Deregister
  \/ REE_Clear

SetChannelParametersNext(feedback, frameRates) ==
  \/ \E t \in Workers, fb \in feedback, f \in frameRates :
        \E a \in 0..fb[1] : SCP_Store(t, fb[1], fb[2], fb[3], a, f)
  \/ \E t \in Workers : SCP_Push(t)

ProcessNext(frameRates) ==
  \/ \E t \in Workers : Process_Test(t)
  \/ \E t \in Workers : Process_Timer(t)
  \/ \E t \in Workers, f \in frameRates : Process_Store(t, f)
  \/ ClockAdvance

EnableFrameDropperNext ==
  \E t \in Workers, enable \in BOOLEAN : EnableFrameDropper(t, enable)

BitrateNext == Bitrate_Check \/ Bitrate_Read

FrameRateNext == FrameRate_Check \/ FrameRate_Read

\* every operation, each over a small set of arguments
Next ==
  \/ AddVideoFrameNext
  \/ IntraFrameRequestNext
  \/ RegisterSendCodecNext(FewCodecs)
  \/ RegisterExternalEncoderNext
  \/ SetChannelParametersNext(FewFeedback, {1})
  \/ ProcessNext({1})
  \/ EnableFrameDropperNext

\* a sender built with a statistics sink
InitSink == Init /\ send_stats_callback_

Spec == InitSink /\ [][Next]_vars

\* the keyframe state machine: submission, keyframe requests, registration
NextFrames ==
  \/ AddVideoFrameNext
  \/ IntraFrameRequestNext
  \/ RegisterSendCodecNext(StreamCodecs)
  \/ RegisterExternalEncoderNext

SpecFrames == InitSink /\ [][NextFrames]_vars

\* the parameter path: channel feedback, submission, registration
NextParams ==
  \/ AddVideoFrameNext
  \/ SetChannelParametersNext(Feedback, FrameRates)
  \/ RegisterSendCodecNext(RateCodecs)
  \/ RegisterExternalEncoderNext

SpecParams == InitSink /\ [][NextParams]_vars

\* the users of the encoder handle: submission, feedback to an internal-source
\* encoder, keyframe requests, registration and the two queries
NextHandle ==
  \/ AddVideoFrameNext
  \/ IntraFrameRequestNext
  \/ SetChannelParametersNext(FewFeedback, {1})
  \/ RegisterSendCodecNext(FewCodecs)
  \/ RegisterExternalEncoderNext
  \/ BitrateNext
  \/ FrameRateNext

SpecHandle == InitSink /\ [][NextHandle]_vars

\* the ticker next to the operations that write what it must leave alone
NextTicker ==
  \/ ProcessNext(FrameRates)
  \/ SetChannelParametersNext(Feedback, FrameRates)
  \/ IntraFrameRequestNext
  \/ RegisterSendCodecNext(FewCodecs)
  \/ RegisterExternalEncoderNext

SpecTicker == Init /\ [][NextTicker]_vars

TypeOK ==
  /\ encoder_crit_ \in Threads \cup {NoThread}
  /\ params_crit_ \in Threads \cup {NoThread}
  /\ Len(next_frame_types_) \in 1..MaxStreams
  /\ calls \in 0..MaxCalls

----------------------------------------------------------------------------
\* Properties

InTrace(trace, fn) == \E k \in 1..Len(trace) : trace[k] = fn

\* thread t performs the post-encode cleanup and returns
Cleans(t) == th[t].pc = "avf_cleanup" /\ th'[t].pc = "done"

Encoded(t) ==
  /\ th[t].op = "AddVideoFrame" /\ th[t].pc = "done" /\ th[t].ret = VCM_OK
  /\ InTrace(th[t].trace, "Encode")

InEncode(t) == th[t].pc = "avf_encode"

\* C1 as stated: an IntraFrameRequest(i) that completed between the snapshot and
\* the downgrade of an AddVideoFrame leaves entry i Key when that AddVideoFrame
\* returns, whatever the snapshot held for i.
C1_RequestSurvivesDowngrade ==
  [][\A t \in Workers : Cleans(t) =>
       \A i \in th[t].reqd :
          (i < Len(th[t].types) /\ i < Len(next_frame_types_'))
          => next_frame_types_'[i + 1] = kVideoFrameKey]_vars

\* C1 amended: for an index i whose snapshot entry was Delta, an
\* IntraFrameRequest(i) that completed between the snapshot and the downgrade, and
\* whose request is still pending (entry i is Key) when the downgrade runs, leaves
\* entry i Key when that AddVideoFrame returns.
C1_DeltaRequestSurvivesDowngrade ==
  [][\A t \in Workers : Cleans(t) =>
       \A i \in th[t].reqd :
          (/\ i < Len(th[t].types) /\ th[t].types[i + 1] = kVideoFrameDelta
           /\ i < Len(next_frame_types_) /\ next_frame_types_[i + 1] = kVideoFrameKey)
          => next_frame_types_'[i + 1] = kVideoFrameKey]_vars

\* C1 witness: an AddVideoFrame has encoded and returned, a request for a stream
\* that was Delta in its snapshot completed meanwhile, and the entry is Key.
C1_Witness ==
  \E t \in Workers :
     /\ Encoded(t)
     /\ \E i \in th[t].reqd :
          /\ i < Len(th[t].types) /\ th[t].types[i + 1] = kVideoFrameDelta
          /\ i < Len(next_frame_types_) /\ next_frame_types_[i + 1] = kVideoFrameKey

\* C2: when the cleanup of a successful, non-dropped AddVideoFrame finds the
\* sequence as it was in the snapshot, every entry is Delta when the call returns.
C2_UnchangedAllDelta ==
  [][\A t \in Workers : (Cleans(t) /\ next_frame_types_ = th[t].types) =>
       \A k \in 1..Len(next_frame_types_') : next_frame_types_'[k] = kVideoFrameDelta]_vars

\* C2 witness: an AddVideoFrame whose snapshot held a Key has encoded and
\* returned, no request arrived meanwhile, and every entry is Delta.
C2_Witness ==
  \E t \in Workers :
     /\ Encoded(t)
     /\ th[t].reqd = {}
     /\ \E k \in 1..Len(th[t].types) : th[t].types[k] = kVideoFrameKey
     /\ Len(next_frame_types_) = Len(th[t].types)
     /\ \A k \in 1..Len(next_frame_types_) : next_frame_types_[k] = kVideoFrameDelta

\* C3 as stated: once a successful RegisterSendCodec has reset the sequence, and
\* until it returns, the sequence has exactly as many entries as the codec declares
\* simulcast streams (0 included), all Key.
C3_LengthIsStreamCount ==
  th[Cfg].pc = "rsc_encdata" =>
     /\ Len(next_frame_types_) = th[Cfg].codec.numberOfSimulcastStreams
     /\ \A k \in 1..Len(next_frame_types_) : next_frame_types_[k] = kVideoFrameKey

\* C3 amended: once a successful RegisterSendCodec has reset the sequence, and
\* until it returns, the sequence has max(declared simulcast streams, 1) entries,
\* all Key: a codec that declares 0 streams gets one entry.
C3_LengthIsMaxStreamCountOne ==
  th[Cfg].pc = "rsc_encdata" =>
     /\ Len(next_frame_types_) =
          IF th[Cfg].codec.numberOfSimulcastStreams = 0 THEN 1
          ELSE th[Cfg].codec.numberOfSimulcastStreams
     /\ \A k \in 1..Len(next_frame_types_) : next_frame_types_[k] = kVideoFrameKey

\* C3 witness: a registration of a codec declaring 0 streams has reset the
\* sequence while an AddVideoFrame with an older snapshot is under way.
C3_Witness ==
  /\ th[Cfg].pc = "rsc_encdata"
  /\ th[Cfg].codec.numberOfSimulcastStreams = 0
  /\ \E t \in Workers : th[t].pc = "avf_lock"

\* C4 as stated: the first Encode call on the encoder a successful
\* RegisterSendCodec installed is given Key for every stream.
C4_FirstEncodeAllKey ==
  [][\A t \in Workers :
       (th[t].pc = "avf_lock" /\ th'[t].pc = "avf_encode" /\ ~_encoder.encoded) =>
          \A k \in 1..Len(th[t].types) : th[t].types[k] = kVideoFrameKey]_vars

\* the steps that carry on a call that has started
Continue(t) ==
  \/ \E f \in FrameCases : AVF_Enter(t, f[1], f[2], f[3], f[4], f[5])
  \/ \E ret \in EncodeResults : AVF_EncodeReturn(t, ret)
  \/ \E garbage \in Garbage : AVF_Cleanup(t, garbage)
  \/ IFR_Enter(t)
  \/ IFR_Recheck(t)
  \/ \E ret \in EncodeResults : IFR_RequestReturn(t, ret)
  \/ SCP_Push(t)
  \/ Process_Timer(t)
  \/ \E f \in FrameRates : Process_Store(t, f)
  \/ (t = Cfg /\ (RSC_Params \/ RSC_Finish \/ REE_Clear))

\* C5: no deadlock: whenever some call has started and not returned, some such
\* call can take its next step (the threads never all wait for a lock).
C5_NoDeadlock ==
  (\E t \in Threads : ~AtRest(t)) => \E t \in Threads : ~AtRest(t) /\ ENABLED Continue(t)

\* C5 witness: one thread holds both locks inside RequestFrame while another
\* call waits for one of them.
C5_Witness ==
  \E t, u \in Threads :
     /\ th[t].pc = "ifr_request"
     /\ th[u].pc \in {"avf_lock", "scp_lock", "proc_params", "ifr_lock"}

\* the tuple SetEncoderParameters hands to the encoder for the stored tuple w
Pushed(w) ==
  IF w.input_frame_rate = 0
    THEN [w EXCEPT !.input_frame_rate = current_codec_.maxFramerate]
    ELSE w

\* C6: with SetChannelParameters and AddVideoFrame running concurrently, the
\* stored EncoderParameters, the snapshot every AddVideoFrame works with and the
\* parameters the encoder was given are always a whole tuple computed by one
\* SetChannelParameters call, or the initial value (the encoder sees a frame
\* rate of 0 replaced by the codec's maximum frame rate), never a mix of two.
C6_NoTornParameters ==
  /\ encoder_params_ \in written
  /\ \A t \in Workers : InFlightAVF(t) => th[t].params \in written
  /\ _encoder.params = ZeroParams \/ \E w \in written : _encoder.params = Pushed(w)

\* C6 witness: an AddVideoFrame is encoding with the tuple of one call while the
\* store already holds the tuple of a later call.
C6_Witness ==
  \E t \in Workers :
     /\ InEncode(t)
     /\ th[t].params # ZeroParams
     /\ encoder_params_ # ZeroParams
     /\ th[t].params # encoder_params_
     /\ _encoder.params = Pushed(th[t].params)

\* C7: at most one thread is inside Encode, and the encoder handle is neither
\* replaced nor cleared while an Encode call is in progress.
C7_EncodeExclusive ==
  /\ [](\A t, u \in Workers : (InEncode(t) /\ InEncode(u)) => t = u)
  /\ [][(\E t \in Workers : InEncode(t)) => _encoder' = _encoder]_vars

\* C7 witness: one thread is inside Encode while another AddVideoFrame waits for
\* the encoder lock.
C7_Witness ==
  \E t, u \in Workers : InEncode(t) /\ th[u].pc = "avf_lock"

\* C8: an IntraFrameRequest whose index is out of range at either bounds check
\* returns -1 there and that check changes nothing.
C8_OutOfRangeNoEffect ==
  [][\A t \in Workers :
       /\ \A i \in StreamIndexes :
            (IFR_Mark(t, i) /\ i >= Len(next_frame_types_)) =>
               /\ th'[t].pc = "done" /\ th'[t].ret = kOutOfRange
               /\ UNCHANGED <<progVars, encoder_crit_, params_crit_>>
       /\ (IFR_Recheck(t) /\ th[t].idx >= Len(next_frame_types_)) =>
               /\ th'[t].pc = "done" /\ th'[t].ret = kOutOfRange
               /\ UNCHANGED progVars
               /\ encoder_crit_' = NoThread /\ params_crit_' = NoThread]_vars

\* C8 witness: an IntraFrameRequest passed the first check, the sequence shrank,
\* and the second check returned -1.
C8_Witness ==
  \E t \in Workers :
     /\ th[t].op = "IntraFrameRequest" /\ th[t].pc = "done"
     /\ th[t].ret = kOutOfRange /\ th[t].internal
     /\ th[t].idx >= Len(next_frame_types_)

\* C9 as stated: a SetChannelParameters whose adjusted target bitrate is zero
\* never calls SetEncoderParameters on an encoder without internal source.
C9_ZeroNeverPushedWithoutInternalSource ==
  [][\A t \in Workers :
       (/\ th[t].pc = "scp_lock" /\ th'[t].pc = "done"
        /\ th[t].params.target_bitrate = 0
        /\ InTrace(th'[t].trace, "SetEncoderParameters"))
       => _encoder.internal]_vars

\* C10: an AddVideoFrame that finds the encoder handle null returns
\* VCM_UNINITIALIZED, calls neither the rate control nor an encoder, and leaves
\* the parameters, the frame types and the internal-source flag as they were.
C10_UninitializedNoEffect ==
  [][\A t \in Workers :
       /\ AVF_Snapshot(t) => UNCHANGED progVars
       /\ (th[t].pc = "avf_lock" /\ th'[t].pc # "avf_lock" /\ ~_encoder.present) =>
            /\ th'[t].pc = "done" /\ th'[t].ret = VCM_UNINITIALIZED
            /\ th'[t].trace = <<>>
            /\ UNCHANGED progVars]_vars

\* C10 witness: an AddVideoFrame has returned VCM_UNINITIALIZED.
C10_Witness ==
  \E t \in Workers :
     /\ th[t].op = "AddVideoFrame" /\ th[t].pc = "done"
     /\ th[t].ret = VCM_UNINITIALIZED
     /\ ~_encoder.present

\* the number of calls of fn recorded in trace
Count(trace, fn) == Cardinality({k \in 1..Len(trace) : trace[k] = fn})

\* C11: with an encoder registered, an AddVideoFrame for which DropFrame returns
\* true returns VCM_OK, calls OnDroppedFrame exactly once, does not call Encode
\* and leaves the frame-type sequence (and the encoder handle's presence) as it was.
C11_DropPath ==
  [][\A t \in Workers : \A f \in FrameCases :
       (f[1] /\ AVF_Enter(t, f[1], f[2], f[3], f[4], f[5]) /\ _encoder.present) =>
          /\ th'[t].pc = "done" /\ th'[t].ret = VCM_OK
          /\ Count(th'[t].trace, "OnDroppedFrame") = 1
          /\ Count(th'[t].trace, "Encode") = 0
          /\ next_frame_types_' = next_frame_types_
          /\ _encoder'.encoded = _encoder.encoded]_vars

\* C11 witness: an AddVideoFrame returned on the drop path while a Key was
\* pending, and the Key is still pending.
C11_Witness ==
  \E t \in Workers :
     /\ th[t].op = "AddVideoFrame" /\ th[t].pc = "done" /\ th[t].ret = VCM_OK
     /\ InTrace(th[t].trace, "OnDroppedFrame")
     /\ \E k \in 1..Len(th[t].types) : th[t].types[k] = kVideoFrameKey
     /\ next_frame_types_ = th[t].types

----------------------------------------------------------------------------
\* The end-to-end scenario: one thread after the other registers a codec,
\* submits a frame, requests a key frame for stream 1 and submits a second frame;
\* each call starts when the one before it has returned with success.

Quiet == \A t \in Threads : AtRest(t)

Scenario_Register ==
  /\ calls = 0
  /\ \E codec \in StreamCodecs, ok \in BOOLEAN : RSC_Begin(codec, ok)

Scenario_FirstFrame ==
  /\ calls = 1 /\ Quiet
  /\ th[Cfg].ret = VCM_OK
  /\ \E t \in Workers : AVF_Snapshot(t)

Scenario_Request ==
  /\ calls = 2 /\ Quiet
  /\ Encoded(1)
  /\ \E t \in Workers : IFR_Mark(t, 1)

Scenario_SecondFrame ==
  /\ calls = 3 /\ Quiet
  /\ th[1].ret = VCM_OK
  /\ \E t \in Workers : AVF_Snapshot(t)

NextScenario ==
  \/ Scenario_Register
  \/ RSC_Params
  \/ RSC_Finish
  \/ Scenario_FirstFrame
  \/ Scenario_Request
  \/ Scenario_SecondFrame
  \/ \E t \in Workers, f \in FrameCases : AVF_Enter(t, f[1], f[2], f[3], f[4], f[5])
  \/ \E t \in Workers, ret \in EncodeResults : AVF_EncodeReturn(t, ret)
  \/ \E t \in Workers, garbage \in Garbage : AVF_Cleanup(t, garbage)

SpecScenario == Init /\ [][NextScenario]_vars

\* the registration of the scenario declared two simulcast streams and succeeded
TwoStreams ==
  /\ th[Cfg].op = "RegisterSendCodec" /\ th[Cfg].pc = "done" /\ th[Cfg].ret = VCM_OK
  /\ th[Cfg].codec.numberOfSimulcastStreams = 2

\* C12: in the sequential scenario with a non-internal-source encoder and two
\* streams: after the registration both entries are Key; after the first
\* successful AddVideoFrame both are Delta; after IntraFrameRequest(1) entry 1 is
\* Key and entry 0 Delta; the second Encode is given Delta for stream 0 and Key
\* for stream 1, and after that AddVideoFrame both entries are Delta again.
C12_EndToEnd ==
  (TwoStreams /\ Quiet) =>
     /\ calls = 1 => next_frame_types_ = <<kVideoFrameKey, kVideoFrameKey>>
     /\ (calls = 2 /\ Encoded(1)) =>
           /\ th[1].types = <<kVideoFrameKey, kVideoFrameKey>>
           /\ next_frame_types_ = <<kVideoFrameDelta, kVideoFrameDelta>>
     /\ calls = 3 =>
           /\ th[1].op = "IntraFrameRequest" /\ th[1].ret = VCM_OK
           /\ next_frame_types_ = <<kVideoFrameDelta, kVideoFrameKey>>
     /\ (calls = 4 /\ Encoded(1)) =>
           /\ th[1].types = <<kVideoFrameDelta, kVideoFrameKey>>
           /\ next_frame_types_ = <<kVideoFrameDelta, kVideoFrameDelta>>

\* C12 witness: the scenario has run to its end, the second frame was encoded.
C12_Witness ==
  /\ TwoStreams /\ Quiet /\ calls = 4 /\ Encoded(1)
  /\ ~encoder_has_internal_source_
  /\ th[1].types = <<kVideoFrameDelta, kVideoFrameKey>>

----------------------------------------------------------------------------
\* The statistics ticker next to the frame dropper switch, for a sender built
\* with or without a statistics sink

NextProcess ==
  \/ ProcessNext(FrameRates)
  \/ EnableFrameDropperNext

SpecProcess == Init /\ [][NextProcess]_vars

\* C13: a Process call that finds the timer due consumes the interval (the
\* timer is not due right after the timer part of the call), with or without a
\* statistics sink, and calls SendStatistics once if a sink is registered; a
\* call that finds the timer not due goes to the refresh without either call;
\* the rest of the call adds no SendStatistics call and leaves the timer alone.
C13_TimerConsumed ==
  [][\A t \in Workers :
       /\ Process_Test(t) =>
            /\ th'[t].pc = IF timerDue THEN "proc_timer" ELSE "proc_params"
            /\ th'[t].trace = <<>>
            /\ timerDue' = timerDue
       /\ Process_Timer(t) =>
            /\ th[t].internal
            /\ ~timerDue'
            /\ Count(th'[t].trace, "Processed") = 1
            /\ Count(th'[t].trace, "SendStatistics") = IF send_stats_callback_ THEN 1 ELSE 0
       /\ (th[t].pc = "proc_params" /\ th'[t].pc = "done") =>
            /\ Count(th'[t].trace, "SendStatistics") =
                  IF th[t].internal /\ send_stats_callback_ THEN 1 ELSE 0
            /\ Count(th'[t].trace, "Processed") = IF th[t].internal THEN 1 ELSE 0
            /\ timerDue' = timerDue]_vars

\* C13 witness: a sender without a sink has returned from a Process call made
\* when the timer was due: the interval was consumed, nothing was reported.
C13_Witness ==
  \E t \in Workers :
     /\ ~send_stats_callback_
     /\ th[t].op = "Process" /\ th[t].pc = "done" /\ th[t].internal
     /\ InTrace(th[t].trace, "Processed")
     /\ ~InTrace(th[t].trace, "SendStatistics")
     /\ ~timerDue

\* thread t makes the step of AddVideoFrame or SetChannelParameters that calls
\* SetEncoderParameters, and the call reaches the encoder
PushStep(t) ==
  /\ th[t].pc \in {"avf_lock", "scp_lock"} /\ th'[t].pc # th[t].pc
  /\ PushesParameters(_encoder, th[t].params, th[t].internal)

\* C14 as stated: the input_frame_rate handed to the encoder is never zero, for
\* every codec that can be registered.
C14_FrameRateNeverZero ==
  [][\A t \in Workers : PushStep(t) => _encoder'.params.input_frame_rate # 0]_vars

\* C14 amended: the input_frame_rate handed to the encoder is the estimate when
\* that is not zero and the cached codec's maximum frame rate otherwise, so it
\* is not zero whenever the cached codec declares a maximum frame rate above 0.
C14_FrameRateDefaultsToCodecMaximum ==
  [][\A t \in Workers : PushStep(t) =>
       /\ _encoder'.params.input_frame_rate =
             IF th[t].params.input_frame_rate = 0 THEN current_codec_.maxFramerate
             ELSE th[t].params.input_frame_rate
       /\ current_codec_.maxFramerate # 0 => _encoder'.params.input_frame_rate # 0]_vars

\* C14 witness: the encoder was handed the codec's maximum frame rate in place
\* of an estimate of zero.
C14_Witness ==
  \E t \in Workers :
     /\ th[t].pc = "done" /\ InTrace(th[t].trace, "SetEncoderParameters")
     /\ th[t].params.input_frame_rate = 0
     /\ current_codec_.maxFramerate # 0
     /\ _encoder.params.input_frame_rate = current_codec_.maxFramerate

\* C15: a RegisterSendCodec that returns VCM_PARAMETER_ERROR (the codec was
\* null) has called neither the registry nor the rate control and has left the
\* handle, the codec snapshot, the frame types, the internal-source flag, the
\* frame-dropper state and both locks as they were.
C15_NullCodecNoEffect ==
  [][(/\ calls' = calls + 1 /\ \A t \in Workers : th'[t] = th[t]
      /\ th'[Cfg].pc = "done"
      /\ th'[Cfg].op = "RegisterSendCodec" /\ th'[Cfg].ret = VCM_PARAMETER_ERROR)
     => /\ th'[Cfg].trace = <<>>
        /\ UNCHANGED <<progVars, encoder_crit_, params_crit_>>]_vars

\* C15 witness: a null codec was rejected while an encoder was registered, and
\* the encoder is still there.
C15_Witness ==
  /\ th[Cfg].op = "RegisterSendCodec" /\ th[Cfg].pc = "done"
  /\ th[Cfg].ret = VCM_PARAMETER_ERROR
  /\ _encoder.present
  /\ \E k \in 1..Len(next_frame_types_) : next_frame_types_[k] = kVideoFrameKey

\* the configuration thread makes the step of RegisterSendCodec that returns
\* VCM_CODEC_ERROR
FailedRegistration ==
  /\ calls' = calls + 1 /\ \A t \in Workers : th'[t] = th[t]
  /\ th'[Cfg].pc = "done"
  /\ th'[Cfg].op = "RegisterSendCodec" /\ th'[Cfg].ret = VCM_CODEC_ERROR

\* C16 as stated: a RegisterSendCodec whose SetSendCodec fails returns
\* VCM_CODEC_ERROR with the handle refreshed from the registry, and the codec
\* snapshot and the internal-source flag describe the encoder now in the handle:
\* the snapshot is replaced only if the handle holds an encoder, and the flag is
\* set only if the handle holds an encoder with an internal source.
C16_FailedRegistrationConsistent ==
  [][FailedRegistration =>
       /\ _encoder' = GetEncoderAfterSetSendCodec(th'[Cfg].codec, FALSE)
       /\ ~_encoder'.present => current_codec_' = current_codec_
       /\ encoder_has_internal_source_' => (_encoder'.present /\ _encoder'.internal)]_vars

----------------------------------------------------------------------------
\* The frame dropper policy: registrations of codecs with one or two temporal
\* layers, in real-time or screensharing mode, next to requests to enable the
\* frame dropper (the only requests made, so the last requested state is
\* "enabled", which is also the state the rate control starts in)

LayerCodecs ==
  { Codec(1, 1, "builtin", "VP8", n, m) :
      n \in {1, 2}, m \in {"kRealtimeVideo", "kScreensharing"} }

NextDropper ==
  \/ RegisterSendCodecNext(LayerCodecs)
  \/ \E t \in Workers : EnableFrameDropper(t, TRUE)

SpecDropper == InitSink /\ [][NextDropper]_vars

LayeredScreenshare(codec) == NumLayers(codec) > 1 /\ codec.mode = "kScreensharing"

\* C17 as stated: when a RegisterSendCodec has succeeded in the registry and
\* applied the frame dropper policy, the frame dropper is disabled if the codec
\* has more than one temporal layer in screensharing mode, and otherwise is in
\* its last externally requested state (here: enabled, whether or not
\* EnableFrameDropper was called and whatever was registered before).
C17_DropperFollowsPolicy ==
  [][(AtRest(Cfg) /\ th'[Cfg].pc = "rsc_params") =>
       IF LayeredScreenshare(th'[Cfg].codec) THEN ~mo'.dropper ELSE mo'.dropper]_vars

\* C18: RegisterExternalEncoder(null) for the active send codec clears the
\* handle and the internal-source flag in one step, made with encoder_crit_ held
\* and params_crit_ taken for it; every other step of RegisterExternalEncoder
\* leaves both as they were; once cleared, the handle stays null until a
\* RegisterSendCodec, and an AddVideoFrame that meets it returns
\* VCM_UNINITIALIZED.
C18_DeregisterClearsBoth ==
  [][/\ (th[Cfg].pc = "ree_params" /\ th'[Cfg].pc = "done") =>
          /\ encoder_crit_ = Cfg /\ params_crit_ = NoThread
          /\ ~_encoder'.present /\ ~encoder_has_internal_source_'
     /\ (calls' = calls + 1 /\ th'[Cfg] # th[Cfg] /\ th'[Cfg].op = "RegisterExternalEncoder") =>
          UNCHANGED <<_encoder, encoder_has_internal_source_>>
     /\ (_encoder.present /\ ~_encoder'.present /\ th'[Cfg].op = "RegisterExternalEncoder") =>
          ~encoder_has_internal_source_'
     /\ (~_encoder.present /\ _encoder'.present) => th'[Cfg].op = "RegisterSendCodec"
     /\ \A t \in Workers :
          (th[t].pc = "avf_lock" /\ th'[t].pc # "avf_lock" /\ ~_encoder.present) =>
             (th'[t].pc = "done" /\ th'[t].ret = VCM_UNINITIALIZED)]_vars

\* C18 witness: the active external encoder with internal source was
\* deregistered and handle and flag are cleared, while a SetChannelParameters
\* that had read the flag as true still waits to push its parameters.
C18_Witness ==
  /\ th[Cfg].op = "RegisterExternalEncoder" /\ th[Cfg].pc = "done"
  /\ th[Cfg].trace = <<"DeregisterExternalEncoder">>
  /\ current_codec_.plType = "ext"
  /\ ~_encoder.present /\ ~encoder_has_internal_source_
  /\ \E t \in Workers : th[t].pc = "scp_lock" /\ th[t].internal

\* thread t calls RequestFrame
CallsRequestFrame(t) == th[t].pc = "ifr_params" /\ th'[t].pc = "ifr_request"

\* every entry but the one of stream i is the same before and after the step
OthersUnchanged(i) ==
  /\ Len(next_frame_types_') = Len(next_frame_types_)
  /\ \A k \in 1..Len(next_frame_types_) : k # i + 1 => next_frame_types_'[k] = next_frame_types_[k]

\* C19 as stated: IntraFrameRequest(i) with an internal-source encoder calls
\* RequestFrame while entry i is Key; if RequestFrame succeeds entry i is Delta
\* when the call returns, if it fails entry i is Key; other entries are
\* unchanged and the call returns VCM_OK.
C19_RequestFrameWhileKey ==
  [][\A t \in Workers :
       /\ CallsRequestFrame(t) => next_frame_types_[th[t].idx + 1] = kVideoFrameKey
       /\ \A ret \in EncodeResults : IFR_RequestReturn(t, ret) =>
             /\ next_frame_types_'[th[t].idx + 1] =
                   IF ret = WEBRTC_VIDEO_CODEC_OK THEN kVideoFrameDelta ELSE kVideoFrameKey
             /\ OthersUnchanged(th[t].idx)
             /\ th'[t].pc = "done" /\ th'[t].ret = VCM_OK]_vars

\* C19 amended: the first phase sets entry i to Key; until the call holds both
\* locks only the downgrade of an AddVideoFrame or another IntraFrameRequest
\* whose RequestFrame was serviced takes that Key away; RequestFrame is given the
\* sequence as it is then; if RequestFrame succeeds entry i is Delta when the
\* call returns, if it fails entry i is left as it was at the call; other
\* entries are unchanged and the call returns VCM_OK.
C19_RequestFrameOnCurrentSequence ==
  [][\A t \in Workers :
       /\ \A i \in StreamIndexes :
            (IFR_Mark(t, i) /\ th'[t].pc = "ifr_lock") => next_frame_types_'[i + 1] = kVideoFrameKey
       /\ (/\ th[t].pc \in {"ifr_lock", "ifr_params"} /\ th'[t].pc \in {"ifr_lock", "ifr_params"}
           /\ th[t].idx < Len(next_frame_types_) /\ th[t].idx < Len(next_frame_types_')
           /\ next_frame_types_[th[t].idx + 1] = kVideoFrameKey
           /\ next_frame_types_'[th[t].idx + 1] # kVideoFrameKey)
          => \E u \in Workers \ {t} : Cleans(u) \/ th[u].pc = "ifr_request"
       /\ CallsRequestFrame(t) =>
            /\ _encoder.present /\ _encoder.internal
            /\ th'[t].types = next_frame_types_ /\ UNCHANGED next_frame_types_
       /\ \A ret \in EncodeResults : IFR_RequestReturn(t, ret) =>
             /\ next_frame_types_'[th[t].idx + 1] =
                   IF ret = WEBRTC_VIDEO_CODEC_OK THEN kVideoFrameDelta
                   ELSE th[t].types[th[t].idx + 1]
             /\ th[t].types = next_frame_types_
             /\ OthersUnchanged(th[t].idx)
             /\ th'[t].pc = "done" /\ th'[t].ret = VCM_OK]_vars

\* C19 witness: a request for a stream of an internal-source encoder was not
\* serviced by RequestFrame, the call has returned VCM_OK and the entry is Key.
C19_Witness ==
  \E t \in Workers :
     /\ th[t].op = "IntraFrameRequest" /\ th[t].pc = "done" /\ th[t].ret = VCM_OK
     /\ InTrace(th[t].trace, "RequestFrame")
     /\ th[t].idx < Len(next_frame_types_)
     /\ th[t].types[th[t].idx + 1] = kVideoFrameKey
     /\ next_frame_types_[th[t].idx + 1] = kVideoFrameKey

\* thread t is about to acquire encoder_crit_
WantsEncoderLock(t) == th[t].pc \in {"avf_lock", "scp_lock", "ifr_lock"}

\* C20: lock order. A thread about to acquire the encoder lock holds neither
\* lock, so AddVideoFrame and SetChannelParameters have released the parameter
\* lock by then; a thread that holds the parameter lock across steps holds the
\* encoder lock too; a step that acquires the encoder lock is taken by a thread
\* without the parameter lock, and a step that acquires the parameter lock and
\* keeps it was taken by a thread already holding the encoder lock.
C20_LockOrder ==
  /\ [](\A t \in Threads :
          /\ WantsEncoderLock(t) => params_crit_ # t /\ encoder_crit_ # t
          /\ params_crit_ = t => encoder_crit_ = t)
  /\ [][\A t \in Threads :
          /\ (encoder_crit_' = t /\ encoder_crit_ # t) =>
                WantsEncoderLock(t) \/ (AtRest(t) /\ th'[t].op \in {"RegisterSendCodec", "RegisterExternalEncoder"})
          /\ (encoder_crit_' = t /\ encoder_crit_ # t) => params_crit_ # t /\ params_crit_' # t
          /\ (params_crit_' = t /\ params_crit_ # t) => encoder_crit_ = t]_vars

\* C20 witness: a request holds both locks, taken in order, while an
\* AddVideoFrame that has released the parameter lock waits for the encoder lock.
C20_Witness ==
  \E t, u \in Workers :
     /\ encoder_crit_ = t /\ params_crit_ = t /\ th[t].op = "IntraFrameRequest"
     /\ th[u].op = "AddVideoFrame" /\ WantsEncoderLock(u)

\* thread t is inside a call into the encoder that can take time
InEncoderCall(t) == th[t].pc \in {"avf_encode", "ifr_request"}

\* C21 as stated: the parameter lock is never held during a call into the
\* encoder, so whenever an encoder call is in progress the parameter lock is free
\* for a thread that needs only that lock.
C21_ParameterLockFreeDuringEncoderCalls ==
  (\E t \in Threads : InEncoderCall(t)) => Free(params_crit_)

\* C21 amended: the parameter lock is free whenever Encode is in progress; the
\* one encoder call made with the parameter lock held across it is the
\* RequestFrame of IntraFrameRequest's second phase, made with both locks held.
C21_ParameterLockFreeDuringEncode ==
  /\ (\E t \in Threads : InEncode(t)) => Free(params_crit_)
  /\ \A t \in Threads : params_crit_ = t <=> th[t].pc = "ifr_request"
  /\ \A t \in Threads : th[t].pc = "ifr_request" => encoder_crit_ = t

\* C21 witness: Encode is in progress while a Process call is about to take the
\* parameter lock, which is free.
C21_Witness ==
  \E t, u \in Workers :
     /\ InEncode(t) /\ th[u].pc = "proc_params"
     /\ Free(params_crit_)

\* line 312: the indexes the cleanup loop visits (1-based)
CleanupIndexes(current) == 1..Len(current)

\* C22 as stated: every index the post-encode cleanup of AddVideoFrame reads is
\* in range for the snapshot taken before the encode and for the current
\* sequence, also when a RegisterSendCodec resized the sequence in between.
C22_CleanupIndexesInRange ==
  [][\A t \in Workers : Cleans(t) =>
       \A i \in CleanupIndexes(next_frame_types_) :
          i <= Len(th[t].types) /\ i <= Len(next_frame_types_)]_vars

\* C23: an AddVideoFrame that ends on a resolution mismatch, a failed conversion
\* of a native buffer or a negative Encode result changes no entry of the
\* frame-type sequence and leaves the stored EncoderParameters as they were in
\* every step it takes; the first two return VCM_PARAMETER_ERROR without having
\* called Encode, and a negative Encode result is returned as it is.
C23_FailedSubmissionNoEffect ==
  [][\A t \in Workers :
       /\ AVF_Snapshot(t) => UNCHANGED <<next_frame_types_, encoder_params_>>
       /\ \A f \in FrameCases :
            (/\ ~f[1] /\ AVF_Enter(t, f[1], f[2], f[3], f[4], f[5])
             /\ _encoder.present) =>
               /\ UNCHANGED <<next_frame_types_, encoder_params_>>
               /\ (~f[2] \/ (f[3] /\ ~f[4] /\ ~f[5])) =>
                     /\ th'[t].pc = "done" /\ th'[t].ret = VCM_PARAMETER_ERROR
                     /\ Count(th'[t].trace, "Encode") = 0
                     /\ _encoder'.encoded = _encoder.encoded
                     /\ encoder_crit_' = encoder_crit_
       /\ \A ret \in EncodeResults :
            (AVF_EncodeReturn(t, ret) /\ ret < 0) =>
               /\ th'[t].pc = "done" /\ th'[t].ret = ret
               /\ UNCHANGED <<next_frame_types_, encoder_params_>>]_vars

\* C23 witness: an AddVideoFrame returned the negative result of Encode while a
\* Key was pending and parameters were stored; the Key is still pending.
C23_Witness ==
  \E t \in Workers :
     /\ th[t].op = "AddVideoFrame" /\ th[t].pc = "done"
     /\ th[t].ret = WEBRTC_VIDEO_CODEC_ERROR
     /\ InTrace(th[t].trace, "Encode")
     /\ \E k \in 1..Len(th[t].types) : th[t].types[k] = kVideoFrameKey
     /\ next_frame_types_ = th[t].types
     /\ encoder_params_ # ZeroParams

\* the step reads, writes or dereferences the encoder handle inside a scope of
\* encoder_crit_
AccessesHandleLocked(t) ==
  \/ \E f \in FrameCases : AVF_Enter(t, f[1], f[2], f[3], f[4], f[5])
  \/ SCP_Push(t)
  \/ IFR_Recheck(t)
  \/ (t = Cfg /\ ((\E codec \in FewCodecs, ok \in BOOLEAN : RSC_Begin(codec, ok))
                    \/ RSC_Params \/ REE_Clear))

\* the step tests or dereferences the encoder handle in one of the two queries
AccessesHandleInQuery(t) ==
  t = Cfg /\ (Bitrate_Check \/ Bitrate_Read \/ FrameRate_Check \/ FrameRate_Read)

\* the positions at which a call has tested the handle and will still use it
UsesHandle(t) ==
  th[t].pc \in {"avf_encode", "ifr_request", "rsc_params", "rsc_encdata", "br_read", "fr_read"}

\* C24 as stated: every step that tests or dereferences the encoder handle, in
\* every operation, Bitrate and FrameRate included, is taken with the encoder
\* lock: no other thread owns the lock at that step.
C24_HandleAccessUnderEncoderLock ==
  [][\A t \in Threads :
       (AccessesHandleLocked(t) \/ AccessesHandleInQuery(t)) =>
          encoder_crit_ \in {NoThread, t}]_vars

\* C24 amended: RegisterSendCodec, RegisterExternalEncoder, SetChannelParameters,
\* AddVideoFrame and IntraFrameRequest access the handle with the encoder lock;
\* Bitrate and FrameRate test and dereference it without a lock, on the
\* configuration thread; the handle changes only in steps of the configuration
\* thread taken with the encoder lock, so in every operation the handle tested
\* is still there when it is used and no call dereferences a null handle.
C24_HandleStableBetweenCheckAndUse ==
  /\ [](\A t \in Threads : /\ UsesHandle(t) => _encoder.present
                           /\ th[t].pc # "crashed")
  /\ [][/\ \A t \in Threads : AccessesHandleLocked(t) => encoder_crit_ \in {NoThread, t}
        /\ (\/ _encoder'.present # _encoder.present
            \/ _encoder'.external # _encoder.external
            \/ _encoder'.internal # _encoder.internal) =>
              /\ th'[Cfg] # th[Cfg] /\ \A t \in Workers : th'[t] = th[t]
              /\ encoder_crit_ \in {NoThread, Cfg}
              /\ ~UsesHandle(Cfg)]_vars

\* C24 witness: Bitrate has read the parameters of the encoder, without the
\* encoder lock, while an AddVideoFrame holds that lock inside Encode.
C24_Witness ==
  /\ th[Cfg].op = "Bitrate" /\ th[Cfg].pc = "done" /\ th[Cfg].ret = VCM_OK
  /\ InTrace(th[Cfg].trace, "GetEncoderParameters")
  /\ \E t \in Workers : InEncode(t) /\ encoder_crit_ = t

\* C25: every Process call, with the statistics timer due or not and with or
\* without a statistics sink, reaches the refresh, which is taken with the
\* parameter lock and sets the stored input_frame_rate to the frame rate the
\* rate control reports; target_bitrate, loss_rate and rtt, the frame-type
\* sequence and the internal-source flag are left as they were by the call.
C25_ProcessRefreshesFrameRate ==
  [][\A t \in Workers :
       /\ Process_Test(t) =>
            /\ th'[t].pc \in {"proc_timer", "proc_params"}
            /\ UNCHANGED <<encoder_params_, next_frame_types_, encoder_has_internal_source_>>
       /\ Process_Timer(t) =>
            /\ th'[t].pc = "proc_params"
            /\ UNCHANGED <<encoder_params_, next_frame_types_, encoder_has_internal_source_>>
       /\ \A f \in FrameRates : Process_Store(t, f) =>
            /\ params_crit_ = NoThread
            /\ encoder_params_'.input_frame_rate = f
            /\ encoder_params_'.target_bitrate = encoder_params_.target_bitrate
            /\ encoder_params_'.loss_rate = encoder_params_.loss_rate
            /\ encoder_params_'.rtt = encoder_params_.rtt
            /\ UNCHANGED <<next_frame_types_, encoder_has_internal_source_>>
            /\ th'[t].pc = "done" /\ InTrace(th'[t].trace, "InputFrameRate")]_vars

\* C25 witness: a Process call made with the timer not due and without a sink
\* has returned; the stored parameters hold the channel feedback stored before
\* and the refreshed frame rate, and a keyframe request is pending.
C25_Witness ==
  /\ ~send_stats_callback_
  /\ \E t \in Workers :
       /\ th[t].op = "Process" /\ th[t].pc = "done" /\ ~th[t].internal
       /\ th[t].trace = <<"InputFrameRate">>
  /\ encoder_params_ = [target_bitrate |-> 1, loss_rate |-> 1, rtt |-> 1, input_frame_rate |-> 1]
  /\ \E w \in written : w.target_bitrate = 1 /\ w.input_frame_rate = 0
  /\ \E k \in 1..Len(next_frame_types_) : next_frame_types_[k] = kVideoFrameKey

\* entry i (1-based) of the frame-type sequence goes from Key to Delta in the step
KeyCleared(i) ==
  /\ i <= Len(next_frame_types_) /\ next_frame_types_[i] = kVideoFrameKey
  /\ i <= Len(next_frame_types_') /\ next_frame_types_'[i] = kVideoFrameDelta

\* C26 as stated: an entry changes from Key to Delta only in the cleanup of an
\* AddVideoFrame whose successful Encode was given Key for that index, or in an
\* IntraFrameRequest for that index whose RequestFrame succeeded and was given
\* Key for it; no other step clears a keyframe request.
C26_KeyClearedOnlyWhenServiced ==
  [][\A i \in 1..MaxStreams : KeyCleared(i) =>
       \/ \E t \in Workers :
            /\ Cleans(t) /\ InTrace(th[t].trace, "Encode") /\ th[t].ret >= 0
            /\ i <= Len(th[t].types) /\ th[t].types[i] = kVideoFrameKey
       \/ \E t \in Workers :
            /\ IFR_RequestReturn(t, WEBRTC_VIDEO_CODEC_OK)
            /\ th[t].idx + 1 = i
            /\ th[t].types[i] = kVideoFrameKey]_vars

\* C27 as stated: whenever no registration operation holds a lock, the cached
\* internal-source flag is true only if the encoder handle is non-null and that
\* encoder reports an internal source.
C27_FlagConsistentWithHandle ==
  (encoder_crit_ # Cfg /\ params_crit_ # Cfg) =>
     (encoder_has_internal_source_ => _encoder.present /\ _encoder.internal)

\* a SetChannelParameters call of thread t has returned after pushing its
\* parameters to the encoder
PushedAndReturned(t) ==
  /\ th[t].op = "SetChannelParameters" /\ th[t].pc = "done"
  /\ InTrace(th[t].trace, "SetEncoderParameters")

\* C28 as stated: with an internal-source encoder, once concurrent
\* SetChannelParameters calls have all returned, the target_bitrate, loss_rate
\* and rtt last pushed to the encoder are those of the stored EncoderParameters
\* (the pushes reach the encoder in the order of the stores).
C28_PushOrderFollowsStoreOrder ==
  (/\ \A t \in Threads : AtRest(t)
   /\ _encoder.present /\ _encoder.internal
   /\ \E t, u \in Workers : t # u /\ PushedAndReturned(t) /\ PushedAndReturned(u)
   /\ \E t \in Workers : PushedAndReturned(t) /\ _encoder.params = Pushed(th[t].params))
  => /\ _encoder.params.target_bitrate = encoder_params_.target_bitrate
     /\ _encoder.params.loss_rate = encoder_params_.loss_rate
     /\ _encoder.params.rtt = encoder_params_.rtt

====
